---- MODULE Spec2Model ----
(***************************************************************************)
(* Model of rope/refactor/functionutils.py: DefinitionInfo, CallInfo,      *)
(* ArgumentMapping and the two header parsers.                             *)
(*                                                                         *)
(* Every text (a name, an argument expression, a default expression) is a  *)
(* sequence of one-character strings, so that the prefix tests, slices and *)
(* searches of the code ("*"/"**" prefixes, "." lookup, strip) are         *)
(* computed on characters.  Python's None is the one-element sequence      *)
(* <<"None">>, which no text equals because its element is not one         *)
(* character long.                                                         *)
(***************************************************************************)
EXTENDS Integers, Sequences, FiniteSets, TLC

VARIABLES
    pc,                   \* position of the modelled driver
    definition_info,      \* D : the DefinitionInfo a mapping is built from
    new_definition_info,  \* D' : the (possibly edited) DefinitionInfo
    call_info,            \* C : the CallInfo a mapping is built from
    mapping,              \* ArgumentMapping(D, C)
    new_call_info,        \* mapping.to_call_info(D')
    new_mapping,          \* ArgumentMapping(D', new_call_info)
    header,               \* the header as written (what `code` spells)
    code,                 \* the header fragment handed to a parser
    tree,                 \* the syntax tree ast.parse builds of the fragment
    kind,                 \* the kind of the resolved symbol (pyname)
    primary,              \* the resolved receiver of a call, or None
    debug,                \* __debug__ : whether assert statements run
    parameters            \* the outcome of get_parameters

mapvars == <<definition_info, new_definition_info, call_info, mapping,
             new_call_info, new_mapping>>
parsevars == <<header, code, tree, kind, primary, debug, parameters>>
vars == <<pc, mapvars, parsevars>>

----------------------------------------------------------------------------
(* Bounds of the model *)

MaxParams == 3
MaxArgs == 3
MaxKeywords == 2

----------------------------------------------------------------------------
(* Values *)

None == <<"None">>

\* the parameter names of the definitions, in the order D declares them
NameOrder == <<<<"a">>, <<"b">>, <<"c">>>>
ParamNames == {NameOrder[i] : i \in 1..Len(NameOrder)}
\* the names a keyword argument can have; a name is unknown to a definition
\* that does not declare it
KeywordNameSet == ParamNames
ArgTexts == {<<"1">>, <<"2">>}

\* sequences over S of length at most n
SeqsUpTo(S, n) == UNION {[1..k -> S] : k \in 0..n}

\* sequences over S of length at most n without a repeated element
UniqueSeqsUpTo(S, n) ==
    {s \in SeqsUpTo(S, n) : \A i, j \in 1..Len(s) : s[i] = s[j] => i = j}

\* s[from:] with a 0-based, non-negative from
SliceFrom(s, from) == SubSeq(s, from + 1, Len(s))

\* s[:to] with a 0-based, non-negative to
SliceTo(s, to) == SubSeq(s, 1, IF to < Len(s) THEN to ELSE Len(s))

----------------------------------------------------------------------------
(* class DefinitionInfo, class CallInfo *)

DefinitionInfo(function_name, is_method, args_with_defaults, args_arg, keywords_arg) ==
    [function_name |-> function_name,
     is_method |-> is_method,
     args_with_defaults |-> args_with_defaults,
     args_arg |-> args_arg,
     keywords_arg |-> keywords_arg]

CallInfo(function_name, args, keywords, args_arg, keywords_arg, implicit_arg, constructor) ==
    [function_name |-> function_name,
     args |-> args,
     keywords |-> keywords,
     args_arg |-> args_arg,
     keywords_arg |-> keywords_arg,
     implicit_arg |-> implicit_arg,
     constructor |-> constructor]

----------------------------------------------------------------------------
(* class ArgumentMapping *)

\* faulty variant of DictSet: an existing binding is kept (the positional text wins)
DictSetKeepFirst(d, name, value) ==
    [n \in (DOMAIN d) \cup {name} |->
        IF n \in DOMAIN d THEN d[n] ELSE value]

\* param_dict[name] = value
DictSet(d, name, value) ==
    [n \in (DOMAIN d) \cup {name} |-> IF n = name THEN value ELSE d[n]]

EmptyDict == [n \in {} |-> None]

\* for index, value in enumerate(call_info.args): ...   (index is 0-based)
RECURSIVE PositionalLoop(_, _, _, _)
PositionalLoop(awd, args, index, m) ==
    IF index >= Len(args) THEN m
    ELSE LET value == args[index + 1] IN
         IF index < Len(awd)
         THEN PositionalLoop(awd, args, index + 1,
                  [m EXCEPT !.param_dict =
                       DictSet(m.param_dict, awd[index + 1][1], value)])
         ELSE PositionalLoop(awd, args, index + 1,
                  [m EXCEPT !.args_arg = Append(m.args_arg, value)])

\* faulty variant of FindPair: the search starts at the second pair
RECURSIVE FindPairSkipFirst(_, _, _)
FindPairSkipFirst(awd, name, i) ==
    IF i + 1 > Len(awd) THEN FALSE
    ELSE IF awd[i + 1][1] = name THEN TRUE
    ELSE FindPairSkipFirst(awd, name, i + 1)

\* for pair in definition_info.args_with_defaults: if pair[0] == name: ... break
\* TRUE when the loop left through break, FALSE when it ran into its else
RECURSIVE FindPair(_, _, _)
FindPair(awd, name, i) ==
    IF i > Len(awd) THEN FALSE
    ELSE IF awd[i][1] = name THEN TRUE
    ELSE FindPair(awd, name, i + 1)

\* for name, value in call_info.keywords: ...
RECURSIVE KeywordLoop(_, _, _, _)
KeywordLoop(awd, keywords, k, m) ==
    IF k > Len(keywords) THEN m
    ELSE LET name == keywords[k][1]
             value == keywords[k][2]
         IN IF FindPair(awd, name, 1)
            THEN KeywordLoop(awd, keywords, k + 1,
                     [m EXCEPT !.param_dict = DictSet(m.param_dict, name, value)])
            ELSE KeywordLoop(awd, keywords, k + 1,
                     [m EXCEPT !.keyword_args =
                          Append(m.keyword_args, <<name, value>>)])

\* ArgumentMapping.__init__
ArgumentMapping(d, c) ==
    LET m0 == [call_info |-> c,
               param_dict |-> EmptyDict,
               keyword_args |-> <<>>,
               args_arg |-> <<>>]
        m1 == PositionalLoop(d.args_with_defaults, c.args, 0, m0)
    IN KeywordLoop(d.args_with_defaults, c.keywords, 1, m1)

\* for i in range(index, len(...)): if name in self.param_dict: keywords.append
RECURSIVE KeywordWalk(_, _, _, _)
KeywordWalk(awd, param_dict, i, keywords) ==
    IF i >= Len(awd) THEN keywords
    ELSE LET name == awd[i + 1][1] IN
         IF name \in DOMAIN param_dict
         THEN KeywordWalk(awd, param_dict, i + 1,
                          Append(keywords, <<name, param_dict[name]>>))
         ELSE KeywordWalk(awd, param_dict, i + 1, keywords)

\* faulty variant of ParameterWalk: always positional while possible, without the
\* stop after the first gap
RECURSIVE ParameterWalkNoStop(_, _, _, _)
ParameterWalkNoStop(awd, param_dict, index, args) ==
    IF index >= Len(awd)
    THEN [args |-> args, keywords |-> <<>>]
    ELSE LET name == awd[index + 1][1] IN
         IF name \in DOMAIN param_dict
         THEN ParameterWalkNoStop(awd, param_dict, index + 1,
                                  Append(args, param_dict[name]))
         ELSE ParameterWalkNoStop(awd, param_dict, index + 1, args)

\* for index in range(len(definition_info.args_with_defaults)): ... break
RECURSIVE ParameterWalk(_, _, _, _)
ParameterWalk(awd, param_dict, index, args) ==
    IF index >= Len(awd) THEN [args |-> args, keywords |-> <<>>]
    ELSE LET name == awd[index + 1][1] IN
         IF name \in DOMAIN param_dict
         THEN ParameterWalk(awd, param_dict, index + 1,
                            Append(args, param_dict[name]))
         ELSE [args |-> args,
               keywords |-> KeywordWalk(awd, param_dict, index, <<>>)]

\* faulty variant of ToCallInfo: the overflow positional arguments are not appended
ToCallInfoDropOverflow(m, d) ==
    LET walk == ParameterWalk(d.args_with_defaults, m.param_dict, 0, <<>>)
    IN CallInfo(m.call_info.function_name,
                walk.args,
                walk.keywords \o m.keyword_args,
                m.call_info.args_arg,
                m.call_info.keywords_arg,
                m.call_info.implicit_arg,
                m.call_info.constructor)

\* faulty variant of ToCallInfo: the overflow keywords come before the walk's keywords
ToCallInfoOverflowFirst(m, d) ==
    LET walk == ParameterWalk(d.args_with_defaults, m.param_dict, 0, <<>>)
    IN CallInfo(m.call_info.function_name,
                walk.args \o m.args_arg,
                m.keyword_args \o walk.keywords,
                m.call_info.args_arg,
                m.call_info.keywords_arg,
                m.call_info.implicit_arg,
                m.call_info.constructor)

\* ArgumentMapping.to_call_info
ToCallInfo(m, d) ==
    LET walk == ParameterWalk(d.args_with_defaults, m.param_dict, 0, <<>>)
    IN CallInfo(m.call_info.function_name,
                walk.args \o m.args_arg,
                walk.keywords \o m.keyword_args,
                m.call_info.args_arg,
                m.call_info.keywords_arg,
                m.call_info.implicit_arg,
                m.call_info.constructor)

----------------------------------------------------------------------------
(* Driver of the argument mapper: build a mapping from (D, C), render it   *)
(* against D', and build the mapping of the rendered call against D'.      *)

PlainDefinition(names) ==
    DefinitionInfo(<<"f">>, FALSE, [i \in 1..Len(names) |-> <<names[i], None>>],
                   None, None)

Min(x, y) == IF x < y THEN x ELSE y

\* the definitions a mapping is built from: the algorithm only compares names
\* for equality, so D declares a prefix of NameOrder
OriginalDefinitions ==
    {PlainDefinition(SubSeq(NameOrder, 1, n)) :
        n \in 0..Min(MaxParams, Len(NameOrder))}

\* the edited definitions: any parameter list with unique names
EditedDefinitions ==
    {PlainDefinition(names) : names \in UniqueSeqsUpTo(ParamNames, MaxParams)}

\* keyword lists with unique names
KeywordLists ==
    {kws \in SeqsUpTo(KeywordNameSet \X ArgTexts, MaxKeywords) :
        \A i, j \in 1..Len(kws) : kws[i][1] = kws[j][1] => i = j}

\* the fields of a CallInfo the mapper only passes through
CallShapes ==
    {[args_arg |-> None, keywords_arg |-> None, implicit_arg |-> FALSE,
      constructor |-> FALSE],
     [args_arg |-> <<"r">>, keywords_arg |-> <<"w">>, implicit_arg |-> TRUE,
      constructor |-> FALSE],
     [args_arg |-> None, keywords_arg |-> None, implicit_arg |-> FALSE,
      constructor |-> TRUE]}

MapperCalls ==
    {CallInfo(<<"f">>, args, kws, sh.args_arg, sh.keywords_arg,
              sh.implicit_arg, sh.constructor) :
        args \in SeqsUpTo(ArgTexts, MaxArgs), kws \in KeywordLists,
        sh \in CallShapes}

MapInit ==
    /\ pc = "start"
    /\ definition_info \in OriginalDefinitions
    /\ new_definition_info \in EditedDefinitions
    /\ call_info \in MapperCalls
    /\ mapping = None
    /\ new_call_info = None
    /\ new_mapping = None
    /\ header = None /\ code = None /\ tree = None /\ kind = None
    /\ primary = None /\ debug = None /\ parameters = None

Build ==
    /\ pc = "start"
    /\ mapping' = ArgumentMapping(definition_info, call_info)
    /\ pc' = "built"
    /\ UNCHANGED <<definition_info, new_definition_info, call_info,
                   new_call_info, new_mapping, parsevars>>

Render ==
    /\ pc = "built"
    /\ new_call_info' = ToCallInfo(mapping, new_definition_info)
    /\ pc' = "rendered"
    /\ UNCHANGED <<definition_info, new_definition_info, call_info, mapping,
                   new_mapping, parsevars>>

Rebuild ==
    /\ pc = "rendered"
    /\ new_mapping' = ArgumentMapping(new_definition_info, new_call_info)
    /\ pc' = "done"
    /\ UNCHANGED <<definition_info, new_definition_info, call_info, mapping,
                   new_call_info, parsevars>>

MapNext == Build \/ Render \/ Rebuild

MapSpec == MapInit /\ [][MapNext]_vars

----------------------------------------------------------------------------
(* Properties of the argument mapper *)

Built == pc \in {"built", "rendered", "done"}
Rendered == pc \in {"rendered", "done"}

\* the parameter names of a DefinitionInfo, in declaration order
NamesOf(d) == [i \in 1..Len(d.args_with_defaults) |-> d.args_with_defaults[i][1]]

Range(s) == {s[i] : i \in 1..Len(s)}

\* the names of a keyword list, in order
KeywordNames(kws) == [i \in 1..Len(kws) |-> kws[i][1]]

\* C4: the mapping built from (D, C) is the two-step reference: positional
\* argument i binds parameter i or overflows in call order, then a keyword
\* naming a parameter of D sets (and overwrites) its binding, and a keyword
\* naming no parameter of D overflows in call order; every binding key is a
\* parameter name of D and no overflow keyword name is one.
ThmBuildReference ==
    Built =>
        LET names == NamesOf(definition_info)
            c == call_info
            IsParam(kw) == kw[1] \in Range(names)
        IN /\ DOMAIN mapping.param_dict \subseteq Range(names)
           /\ \A i \in 1..Len(names) :
                 LET byKeyword == {k \in 1..Len(c.keywords) :
                                      c.keywords[k][1] = names[i]}
                 IN IF byKeyword # {}
                    THEN /\ names[i] \in DOMAIN mapping.param_dict
                         /\ \A k \in byKeyword :
                               mapping.param_dict[names[i]] = c.keywords[k][2]
                    ELSE IF i <= Len(c.args)
                    THEN /\ names[i] \in DOMAIN mapping.param_dict
                         /\ mapping.param_dict[names[i]] = c.args[i]
                    ELSE names[i] \notin DOMAIN mapping.param_dict
           /\ mapping.args_arg = SubSeq(c.args, Len(names) + 1, Len(c.args))
           /\ LET NotParam(kw) == ~IsParam(kw)
              IN mapping.keyword_args = SelectSeq(c.keywords, NotParam)
           /\ \A k \in 1..Len(mapping.keyword_args) :
                 mapping.keyword_args[k][1] \notin Range(names)

\* a keyword overwrote a positional binding with another text, and both
\* overflow lists are non-empty
WitBuildReference ==
    /\ pc = "built"
    /\ mapping.args_arg # <<>>
    /\ mapping.keyword_args # <<>>
    /\ \E i \in 1..Len(definition_info.args_with_defaults) :
          \E k \in 1..Len(call_info.keywords) :
             /\ call_info.keywords[k][1] = definition_info.args_with_defaults[i][1]
             /\ i <= Len(call_info.args)
             /\ call_info.args[i] # call_info.keywords[k][2]

\* index (1-based) of the first parameter of d without a binding, or
\* Len + 1 when every parameter is bound
FirstUnbound(d, param_dict) ==
    LET names == NamesOf(d)
    IN CHOOSE k \in 1..(Len(names) + 1) :
          /\ \A j \in 1..(k - 1) : names[j] \in DOMAIN param_dict
          /\ k <= Len(names) => names[k] \notin DOMAIN param_dict

\* C2: the call rendered against D' is the single-pass reference: the bound
\* texts of the longest all-bound prefix of D' followed by the overflow
\* positionals; then (name, text) of every bound parameter at or after the
\* first unbound one, in D' order, followed by the overflow keywords.
ThmRenderReference ==
    Rendered =>
        LET names == NamesOf(new_definition_info)
            pd == mapping.param_dict
            k == FirstUnbound(new_definition_info, pd)
            IsBound(n) == n \in DOMAIN pd
            later == SelectSeq(SubSeq(names, k, Len(names)), IsBound)
        IN /\ new_call_info.args =
                 [i \in 1..(k - 1) |-> pd[names[i]]] \o mapping.args_arg
           /\ new_call_info.keywords =
                 [i \in 1..Len(later) |-> <<later[i], pd[later[i]]>>]
                    \o mapping.keyword_args

\* a gap after a bound prefix, a bound parameter after the gap, and both
\* overflow lists non-empty
WitRenderReference ==
    /\ pc = "rendered"
    /\ mapping.args_arg # <<>>
    /\ mapping.keyword_args # <<>>
    /\ LET names == NamesOf(new_definition_info)
           k == FirstUnbound(new_definition_info, mapping.param_dict)
       IN /\ 1 < k
          /\ k < Len(names)
          /\ \E j \in (k + 1)..Len(names) : names[j] \in DOMAIN mapping.param_dict

\* C1: round trip on an unedited signature: the mapping of the rendered call
\* against D has the bindings and both overflow lists of the mapping of C.
ThmRoundTrip ==
    (pc = "done" /\ new_definition_info = definition_info) =>
        /\ new_mapping.param_dict = mapping.param_dict
        /\ new_mapping.args_arg = mapping.args_arg
        /\ new_mapping.keyword_args = mapping.keyword_args

\* round trip of a call with a gap, a keyword binding after the gap and an
\* overflow keyword
WitRoundTripGap ==
    /\ pc = "done"
    /\ new_definition_info = definition_info
    /\ mapping.keyword_args # <<>>
    /\ LET k == FirstUnbound(definition_info, mapping.param_dict)
       IN /\ k < Len(definition_info.args_with_defaults)
          /\ Len(new_call_info.keywords) > Len(mapping.keyword_args)

\* round trip of a call with overflow positionals
WitRoundTripOverflow ==
    /\ pc = "done"
    /\ new_definition_info = definition_info
    /\ mapping.args_arg # <<>>
    /\ definition_info.args_with_defaults # <<>>

\* D' is D with exactly the parameter at index i renamed to a fresh name
RenamedAt(d, dn, i) ==
    /\ Len(dn.args_with_defaults) = Len(d.args_with_defaults)
    /\ i \in 1..Len(d.args_with_defaults)
    /\ \A j \in 1..Len(d.args_with_defaults) :
          j # i => dn.args_with_defaults[j] = d.args_with_defaults[j]
    /\ dn.args_with_defaults[i][1] \notin Range(NamesOf(d))
    /\ dn.args_with_defaults[i][2] = d.args_with_defaults[i][2]

\* C3: parameter-rename invariance: when D' is D with one parameter renamed
\* to a fresh name and that parameter is bound, the rendered call supplies
\* the bound text to the renamed slot, positionally at its index or as a
\* keyword with the new name.
CexRenameInvariance ==
    Rendered =>
        \A i \in 1..Len(definition_info.args_with_defaults) :
            LET old == definition_info.args_with_defaults[i][1]
                new == new_definition_info.args_with_defaults[i][1]
            IN (/\ RenamedAt(definition_info, new_definition_info, i)
                /\ old \in DOMAIN mapping.param_dict)
               => \/ /\ i <= Len(new_call_info.args)
                     /\ new_call_info.args[i] = mapping.param_dict[old]
                  \/ \E k \in 1..Len(new_call_info.keywords) :
                        new_call_info.keywords[k] = <<new, mapping.param_dict[old]>>

\* C8: overflow stays overflow after an edit: the overflow positionals of
\* the mapping are the overflow positionals of the rendered call against D'.
CexOverflowStaysOverflow ==
    (pc = "done" /\ mapping.args_arg # <<>>) =>
        new_mapping.args_arg = mapping.args_arg

\* the call follows the definition's order: no more positionals than
\* parameters, keywords naming parameters name parameters after the
\* positional ones in declaration order, unknown keywords last
FollowsOrder(d, c) ==
    LET names == NamesOf(d)
        kws == c.keywords
        Index(n) == CHOOSE i \in 1..Len(names) : names[i] = n
    IN /\ Len(c.args) <= Len(names)
       /\ \A k \in 1..Len(kws) :
             kws[k][1] \in Range(names) => Index(kws[k][1]) > Len(c.args)
       /\ \A k, l \in 1..Len(kws) :
             (k < l /\ kws[l][1] \in Range(names))
                => /\ kws[k][1] \in Range(names)
                   /\ Index(kws[k][1]) < Index(kws[l][1])

\* C9 as stated: a call that follows the definition's order is rendered
\* against the same definition with exactly its positional arguments and
\* exactly its keyword arguments.
CexSplitKept ==
    (Rendered /\ new_definition_info = definition_info
        /\ FollowsOrder(definition_info, call_info)) =>
        /\ new_call_info.args = call_info.args
        /\ new_call_info.keywords = call_info.keywords

\* number of leading keywords of c that name the parameters directly after
\* the positionally bound ones, one after the other
LeadingRun(d, c) ==
    LET names == NamesOf(d)
        n == Len(c.args)
        Runs(m) == \A k \in 1..m : /\ n + k <= Len(names)
                                   /\ c.keywords[k][1] = names[n + k]
    IN CHOOSE m \in 0..Len(c.keywords) :
          /\ Runs(m)
          /\ m < Len(c.keywords) => ~Runs(m + 1)

\* C9 amended: a call that follows the definition's order is rendered
\* against the same definition with its positional arguments followed by the
\* texts of the leading keywords that name the parameters directly after the
\* positional ones, and with the remaining keywords in call order.
ThmSplitNormalised ==
    (Rendered /\ new_definition_info = definition_info
        /\ FollowsOrder(definition_info, call_info)) =>
        LET m == LeadingRun(definition_info, call_info)
            kws == call_info.keywords
        IN /\ new_call_info.args =
                 call_info.args \o [k \in 1..m |-> kws[k][2]]
           /\ new_call_info.keywords = SubSeq(kws, m + 1, Len(kws))

\* an ordered call with a positional argument, a leading keyword that is
\* turned into a positional argument, and keywords that stay keywords, one
\* of them known and one unknown
WitSplitNormalised ==
    /\ pc = "rendered"
    /\ new_definition_info = definition_info
    /\ FollowsOrder(definition_info, call_info)
    /\ LeadingRun(definition_info, call_info) > 0
    /\ Len(new_call_info.keywords) > 0

\* C10: a regenerated call is well-formed: its keyword names are pairwise
\* distinct, no parameter of D' emitted positionally by the walk is also
\* emitted as a keyword, and the callee name, both flags and both spread
\* markers are those of C.
ThmWellFormed ==
    Rendered =>
        LET r == new_call_info
            walked == Len(r.args) - Len(mapping.args_arg)
            names == NamesOf(new_definition_info)
        IN /\ \A k, l \in 1..Len(r.keywords) :
                 r.keywords[k][1] = r.keywords[l][1] => k = l
           /\ walked \in 0..Len(names)
           /\ \A i \in 1..walked :
                 names[i] \notin Range(KeywordNames(r.keywords))
           /\ r.function_name = call_info.function_name
           /\ r.implicit_arg = call_info.implicit_arg
           /\ r.constructor = call_info.constructor
           /\ r.args_arg = call_info.args_arg
           /\ r.keywords_arg = call_info.keywords_arg

\* a rendered call with positionals and keywords from the walk and keywords
\* from the overflow, for a call with an implicit argument and both spreads
WitWellFormed ==
    /\ pc = "rendered"
    /\ call_info.implicit_arg
    /\ call_info.args_arg # None
    /\ mapping.keyword_args # <<>>
    /\ Len(new_call_info.keywords) > Len(mapping.keyword_args)
    /\ Len(new_call_info.args) > Len(mapping.args_arg)

----------------------------------------------------------------------------
(* Texts *)

Max(x, y) == IF x > y THEN x ELSE y

\* s[-n:] for n >= 1
LastN(s, n) == SubSeq(s, Max(1, Len(s) - n + 1), Len(s))

\* del s[-n:] for n >= 1
DelLastN(s, n) == SubSeq(s, 1, Max(0, Len(s) - n))

\* s.startswith(prefix)
StartsWith(s, prefix) ==
    /\ Len(s) >= Len(prefix)
    /\ SubSeq(s, 1, Len(prefix)) = prefix

\* ch in s
Contains(s, ch) == \E i \in 1..Len(s) : s[i] = ch

\* s.rindex(ch, lo, hi): the highest 0-based index in [lo, hi) holding ch
RIndex(s, ch, lo, hi) ==
    CHOOSE i \in lo..(hi - 1) :
        /\ s[i + 1] = ch
        /\ \A j \in (i + 1)..(hi - 1) : s[j + 1] # ch

RECURSIVE LStrip(_)
LStrip(s) == IF s # <<>> /\ Head(s) = " " THEN LStrip(Tail(s)) ELSE s

RECURSIVE RStripChar(_, _)
RStripChar(s, ch) ==
    IF s # <<>> /\ s[Len(s)] = ch THEN RStripChar(SubSeq(s, 1, Len(s) - 1), ch)
    ELSE s

\* s.strip()
Strip(s) == RStripChar(LStrip(s), " ")

\* ", ".join(items)
RECURSIVE Join(_)
Join(items) ==
    IF items = <<>> THEN <<>>
    ELSE IF Len(items) = 1 THEN items[1]
    ELSE items[1] \o <<",", " ">> \o Join(Tail(items))

----------------------------------------------------------------------------
(* Syntax trees.  A node records where its source starts and ends; every   *)
(* header here is written on one line, so lineno and end_lineno are 1 and  *)
(* the line starts at offset 0.  NoNode stands for None in a node list.    *)

Node(start, end) ==
    [lineno |-> 1, col_offset |-> start, end_lineno |-> 1, end_col_offset |-> end]

NoNode ==
    [lineno |-> 0, col_offset |-> 0, end_lineno |-> 0, end_col_offset |-> 0]

\* offset of the i-th written item from the start of the item list
RECURSIVE ItemOffset(_, _)
ItemOffset(items, i) ==
    IF i <= 1 THEN 0
    ELSE ItemOffset(items, i - 1) + Len(items[i - 1].text) + 2

\* the node of the value written in item i, the list starting at offset base
ItemNode(items, i, base) ==
    Node(base + ItemOffset(items, i) + items[i].voff,
         base + ItemOffset(items, i) + Len(items[i].text))

ItemTexts(items) == [i \in 1..Len(items) |-> items[i].text]

\* _BaseFunctionParser._get_source_range
GetSourceRange(lines_code, node) ==
    LET start == 0 + node.col_offset
        end == 0 + node.end_col_offset
    IN SubSeq(lines_code, start + 1, end)

----------------------------------------------------------------------------
(* class _BaseFunctionParser *)

RECURSIVE ParensScan(_, _, _)
ParensScan(text, i, depth) ==
    IF i < 0 THEN -1
    ELSE IF text[i + 1] = ")" THEN ParensScan(text, i - 1, depth + 1)
    ELSE IF text[i + 1] = "("
         THEN IF depth = 1 THEN i ELSE ParensScan(text, i - 1, depth - 1)
    ELSE ParensScan(text, i - 1, depth)

\* Worder._find_parens_start: the offset of the opening delimiter that
\* matches the closing one at offset
FindParensStart(text, offset) == ParensScan(text, offset - 1, 1)

\* the characters that end a dotted primary expression
Delimiters == {"(", ")", ",", "=", "*", "/"}

\* start of the longest run of characters outside stops that ends at offset
RECURSIVE RunStart(_, _, _)
RunStart(text, offset, stops) ==
    IF offset >= 0 /\ text[offset + 1] \notin stops
    THEN RunStart(text, offset - 1, stops)
    ELSE offset + 1

\* Worder.get_word_at: the word that ends at offset
GetWordAt(text, offset) ==
    SubSeq(text, RunStart(text, offset, Delimiters \cup {".", " "}) + 1,
           offset + 1)

\* Worder.get_primary_at: the dotted primary expression that ends at offset
GetPrimaryAt(text, offset) ==
    Strip(SubSeq(text, RunStart(text, offset, Delimiters) + 1, offset + 1))

\* _BaseFunctionParser.__init__ (is_lambda is always False here)
BaseFunctionParser(call, implicit_arg) ==
    LET last_parens == RIndex(call, ")", 0, Len(call))
    IN [call |-> call,
        implicit_arg |-> implicit_arg,
        last_parens |-> last_parens,
        first_parens |-> FindParensStart(call, last_parens)]

\* _BaseFunctionParser.is_called_as_a_method
IsCalledAsAMethod(parser) ==
    parser.implicit_arg /\ Contains(SliceTo(parser.call, parser.first_parens), ".")

\* _BaseFunctionParser.get_function_name
GetFunctionName(parser) ==
    IF IsCalledAsAMethod(parser)
    THEN GetWordAt(parser.call, parser.first_parens - 1)
    ELSE GetPrimaryAt(parser.call, parser.first_parens - 1)

\* an exception leaving a parser
Raised(exception) == [status |-> exception]

----------------------------------------------------------------------------
(* class _FunctionCallParser and CallInfo.read *)

\* the written items of a call header: positional arguments, "*E",
\* keyword arguments, "**F"
CallItems(h) ==
    [i \in 1..Len(h.args) |-> [text |-> h.args[i], voff |-> 0]]
    \o (IF h.star = None THEN <<>>
        ELSE <<[text |-> <<"*">> \o h.star, voff |-> 0]>>)
    \o [k \in 1..Len(h.keywords) |->
           [text |-> h.keywords[k][1] \o <<"=">> \o h.keywords[k][2],
            voff |-> Len(h.keywords[k][1]) + 1]]
    \o (IF h.dstar = None THEN <<>>
        ELSE <<[text |-> <<"*", "*">> \o h.dstar, voff |-> 2]>>)

\* the callee expression written before the opening parenthesis
CallPrefix(h) ==
    IF h.receiver = <<>> THEN h.name
    ELSE h.receiver \o h.gap \o <<".">> \o h.name

\* the call header fragment
CallCode(h) ==
    CallPrefix(h) \o <<"(">> \o Join(ItemTexts(CallItems(h))) \o <<")">>

\* ast.parse(call).body[0].value : an ast.Call.  A starred argument is a
\* node of args whose source includes the star; "**F" is a keyword whose
\* arg is None.
CallTree(h) ==
    LET items == CallItems(h)
        base == Len(CallPrefix(h)) + 1
        npos == Len(h.args) + (IF h.star = None THEN 0 ELSE 1)
        nkw == Len(items) - npos
    IN [args |-> [i \in 1..npos |-> ItemNode(items, i, base)],
        keywords |-> [k \in 1..nkw |->
            [arg |-> IF k <= Len(h.keywords) THEN h.keywords[k][1] ELSE None,
             value |-> ItemNode(items, npos + k, base)]]]

\* for kw in self.ast.keywords: ... assert kw.arg ...
RECURSIVE CallKeywordLoop(_, _, _, _, _)
CallKeywordLoop(lines_code, keywords, k, asserts, kwargs) ==
    IF k > Len(keywords) THEN [status |-> "ok", kwargs |-> kwargs]
    ELSE LET kw == keywords[k]
             kw_value == GetSourceRange(lines_code, kw.value)
         IN IF asserts /\ (kw.arg = None \/ kw.arg = <<>>)
            THEN Raised("AssertionError")
            ELSE CallKeywordLoop(lines_code, keywords, k + 1, asserts,
                                 Append(kwargs, <<kw.arg, kw_value>>))

\* _FunctionCallParser.get_parameters
CallGetParameters(parser, ast, asserts) ==
    LET args == [i \in 1..Len(ast.args) |-> GetSourceRange(parser.call, ast.args[i])]
        loop == CallKeywordLoop(parser.call, ast.keywords, 1, asserts, <<>>)
    IN IF loop.status # "ok" THEN loop
       ELSE IF IsCalledAsAMethod(parser)
       THEN LET instance ==
                    SliceTo(parser.call,
                            RIndex(parser.call, ".", 0, parser.first_parens))
            IN [status |-> "ok",
                args |-> <<Strip(instance)>> \o args,
                kwargs |-> loop.kwargs]
       ELSE [status |-> "ok", args |-> args, kwargs |-> loop.kwargs]

\* CallInfo._is_method
IsMethod(pyname_kind) == pyname_kind = "method"

\* CallInfo._is_method_call
IsMethodCall(prim, pyname_kind) ==
    prim # None /\ prim = <<"instance">> /\ IsMethod(pyname_kind)

\* CallInfo._is_class
IsClass(pyname_kind) == pyname_kind = "class"

\* CallInfo._is_classmethod
IsClassmethod(pyname_kind) == pyname_kind = "classmethod"

\* if args and args[-1].startswith("**"): ... if args and
\* args[-1].startswith("*"): ...   (the same lines in _read and in read)
StripVariadic(args0) ==
    LET hasKw == args0 # <<>> /\ StartsWith(args0[Len(args0)], <<"*", "*">>)
        keywords_arg == IF hasKw THEN SliceFrom(args0[Len(args0)], 2) ELSE None
        args1 == IF hasKw THEN SubSeq(args0, 1, Len(args0) - 1) ELSE args0
        hasArgs == args1 # <<>> /\ StartsWith(args1[Len(args1)], <<"*">>)
        args_arg == IF hasArgs THEN SliceFrom(args1[Len(args1)], 1) ELSE None
        args2 == IF hasArgs THEN SubSeq(args1, 1, Len(args1) - 1) ELSE args1
    IN [args |-> args2, args_arg |-> args_arg, keywords_arg |-> keywords_arg]

\* CallInfo.read, after info.get_parameters() returned got
CallInfoRead(prim, pyname_kind, d, parser, got) ==
    LET is_method_call == IsMethodCall(prim, pyname_kind)
        is_constructor == IsClass(pyname_kind)
        is_classmethod == IsClassmethod(pyname_kind)
        stripped == StripVariadic(got.args)
        args == IF is_constructor
                THEN <<d.args_with_defaults[1][1]>> \o stripped.args
                ELSE stripped.args
    IN CallInfo(GetFunctionName(parser), args, got.kwargs, stripped.args_arg,
                stripped.keywords_arg, is_method_call \/ is_classmethod,
                is_constructor)


----------------------------------------------------------------------------
(* class _FunctionDefParser and DefinitionInfo._read *)

\* the text of a declared parameter: name or name=default
ParamText(p) ==
    IF p.default = None THEN [text |-> p.arg, voff |-> 0]
    ELSE [text |-> p.arg \o <<"=">> \o p.default, voff |-> Len(p.arg) + 1]

\* the written items of a definition header: positional-only parameters and
\* "/", normal parameters, "*name" or a bare "*", keyword-only parameters,
\* "**name"
DefItems(h) ==
    [i \in 1..Len(h.posonly) |-> ParamText(h.posonly[i])]
    \o (IF h.posonly = <<>> THEN <<>> ELSE <<[text |-> <<"/">>, voff |-> 0]>>)
    \o [i \in 1..Len(h.args) |-> ParamText(h.args[i])]
    \o (IF h.vararg # None THEN <<[text |-> <<"*">> \o h.vararg, voff |-> 0]>>
        ELSE IF h.kwonly # <<>> THEN <<[text |-> <<"*">>, voff |-> 0]>>
        ELSE <<>>)
    \o [i \in 1..Len(h.kwonly) |-> ParamText(h.kwonly[i])]
    \o (IF h.kwarg = None THEN <<>>
        ELSE <<[text |-> <<"*", "*">> \o h.kwarg, voff |-> 0]>>)

\* the definition header fragment, from the function name
DefCode(h) == h.name \o <<"(">> \o Join(ItemTexts(DefItems(h))) \o <<")">>

\* "def " + call.rstrip(":") + ": pass"
ModifiedCall(call) ==
    <<"d", "e", "f", " ">> \o RStripChar(call, ":") \o <<":", " ", "p", "a", "s", "s">>

\* ast.parse(_modified_call).body[0].args : an ast.arguments.  defaults holds
\* the defaults of the last positional parameters; kw_defaults holds one
\* entry for every keyword-only parameter, None where it has no default.
DefTree(h) ==
    LET items == DefItems(h)
        base == 4 + Len(h.name) + 1
        slash == IF h.posonly = <<>> THEN 0 ELSE 1
        star == IF h.vararg # None \/ h.kwonly # <<>> THEN 1 ELSE 0
        positional == h.posonly \o h.args
        \* index in items of the i-th positional parameter
        PosItem(i) == IF i <= Len(h.posonly) THEN i ELSE i + slash
        KwItem(i) == Len(positional) + slash + star + i
        defaulted == {i \in 1..Len(positional) : positional[i].default # None}
        first == IF defaulted = {} THEN Len(positional) + 1
                 ELSE CHOOSE i \in defaulted : \A j \in defaulted : i <= j
    IN [posonlyargs |-> [i \in 1..Len(h.posonly) |-> h.posonly[i].arg],
        args |-> [i \in 1..Len(h.args) |-> h.args[i].arg],
        vararg |-> h.vararg,
        defaults |-> [i \in 1..(Len(positional) - first + 1) |->
                         ItemNode(items, PosItem(first + i - 1), base)],
        kwonlyargs |-> [i \in 1..Len(h.kwonly) |-> h.kwonly[i].arg],
        kw_defaults |-> [i \in 1..Len(h.kwonly) |->
                            IF h.kwonly[i].default = None THEN NoNode
                            ELSE ItemNode(items, KwItem(i), base)],
        kwarg |-> h.kwarg]

\* the text Python prints for a (name, text) pair; the model writes a pair
\* that the code uses as a name in this form
PairAsName(pair) == <<"(">> \o pair[1] \o <<",">> \o pair[2] \o <<")">>

\* [(name, self._get_source_range(value)) for name, value in zip(names, values)]
RECURSIVE ZipSourceRanges(_, _, _, _)
ZipSourceRanges(lines_code, names, values, i) ==
    IF i > Len(names) \/ i > Len(values) THEN [status |-> "ok", pairs |-> <<>>]
    ELSE IF values[i] = NoNode THEN Raised("AttributeError")
    ELSE LET rest == ZipSourceRanges(lines_code, names, values, i + 1)
         IN IF rest.status # "ok" THEN rest
            ELSE [status |-> "ok",
                  pairs |-> <<<<names[i], GetSourceRange(lines_code, values[i])>>>>
                               \o rest.pairs]

\* _FunctionDefParser.get_parameters
DefGetParameters(lines_code, ast) ==
    LET args0 == ast.posonlyargs \o ast.args
        args1 == IF ast.vararg # None
                 THEN args0 \o <<<<"*">> \o ast.vararg>> ELSE args0
        ndef == Len(ast.defaults)
        zipped1 == IF ndef > 0
                   THEN ZipSourceRanges(lines_code, LastN(args1, ndef), ast.defaults, 1)
                   ELSE [status |-> "ok", pairs |-> <<>>]
        kwargs1 == zipped1.pairs
        args2 == IF ndef > 0 THEN DelLastN(args1, ndef) ELSE args1
        args3 == IF ast.kwarg # None
                 THEN args2 \o <<<<"*", "*">> \o ast.kwarg>> ELSE args2
        args4 == IF ast.kwonlyargs # <<>>
                 THEN args3 \o <<<<"*">>>> \o ast.kwonlyargs ELSE args3
        nkw == Len(ast.kw_defaults)
        \* the names zipped with kw_defaults are entries of kwargs: pairs
        kwnames == [i \in 1..Len(LastN(kwargs1, nkw)) |->
                        PairAsName(LastN(kwargs1, nkw)[i])]
        zipped2 == IF nkw > 0
                   THEN ZipSourceRanges(lines_code, kwnames, ast.kw_defaults, 1)
                   ELSE [status |-> "ok", pairs |-> <<>>]
        args5 == IF nkw > 0 THEN DelLastN(args4, nkw) ELSE args4
    IN IF zipped1.status # "ok" THEN zipped1
       ELSE IF zipped2.status # "ok" THEN zipped2
       ELSE [status |-> "ok", args |-> args5, kwargs |-> kwargs1 \o zipped2.pairs]

\* DefinitionInfo._read, after info.get_parameters() returned got
DefinitionInfoRead(pyfunction_kind, parser, got) ==
    LET is_method == pyfunction_kind = "method"
        stripped == StripVariadic(got.args)
        args_with_defaults ==
            [i \in 1..Len(stripped.args) |-> <<stripped.args[i], None>>]
            \o got.kwargs
    IN DefinitionInfo(GetFunctionName(parser), is_method, args_with_defaults,
                      stripped.args_arg, stripped.keywords_arg)

----------------------------------------------------------------------------
(* Driver of the definition parser: DefinitionInfo._read on a header *)

MaxPositional == 2
MaxKeywordOnly == 2

PositionalOrder == <<<<"a">>, <<"b">>, <<"c">>>>
KeywordOnlyOrder == <<<<"k">>, <<"m">>, <<"n">>>>
DefaultTexts == {<<"1">>, <<"g", "(", "2", ")">>}

\* positional parameter lists: after a parameter with a default every
\* parameter has one
PositionalLists ==
    UNION {{[i \in 1..n |-> [arg |-> PositionalOrder[i], default |-> d[i]]] :
               d \in {e \in [1..n -> DefaultTexts \cup {None}] :
                         \A i, j \in 1..n : (i < j /\ e[i] # None) => e[j] # None}} :
           n \in 0..Min(MaxPositional, Len(PositionalOrder))}

KeywordOnlyLists ==
    UNION {{[i \in 1..n |-> [arg |-> KeywordOnlyOrder[i], default |-> d[i]]] :
               d \in [1..n -> DefaultTexts \cup {None}]} :
           n \in 0..Min(MaxKeywordOnly, Len(KeywordOnlyOrder))}

DefHeaders ==
    UNION {{[name |-> <<"f">>,
             posonly |-> SubSeq(pos, 1, p),
             args |-> SubSeq(pos, p + 1, Len(pos)),
             vararg |-> va,
             kwonly |-> ko,
             kwarg |-> kw] :
               p \in 0..Len(pos), va \in {None, <<"r">>},
               ko \in KeywordOnlyLists, kw \in {None, <<"w">>}} :
           pos \in PositionalLists}

DefInit ==
    /\ pc = "def_start"
    /\ header \in DefHeaders
    /\ code = DefCode(header)
    /\ tree = DefTree(header)
    /\ kind \in {"function", "method", "classmethod"}
    /\ primary = None /\ debug = None /\ parameters = None
    /\ definition_info = None /\ new_definition_info = None
    /\ call_info = None /\ mapping = None
    /\ new_call_info = None /\ new_mapping = None

\* _FunctionDefParser(code, is_method, is_lambda)
FunctionDefParser == BaseFunctionParser(code, kind = "method")

GetDefParameters ==
    /\ pc = "def_start"
    /\ parameters' = DefGetParameters(ModifiedCall(code), tree)
    /\ pc' = "def_parsed"
    /\ UNCHANGED <<mapvars, header, code, tree, kind, primary, debug>>

ReadDefinition ==
    /\ pc = "def_parsed"
    /\ definition_info' =
          IF parameters.status = "ok"
          THEN DefinitionInfoRead(kind, FunctionDefParser, parameters)
          ELSE parameters
    /\ pc' = "def_done"
    /\ UNCHANGED <<new_definition_info, call_info, mapping, new_call_info,
                   new_mapping, parsevars>>

DefNext == GetDefParameters \/ ReadDefinition

DefSpec == DefInit /\ [][DefNext]_vars

----------------------------------------------------------------------------
(* Driver of the call parser: CallInfo.read on a header *)

MaxCallArgs == 2
MaxCallKeywords == 1

CallArgTexts == {<<"1">>, <<"x", ".", "y">>}
CallKeywordOrder == <<<<"k">>, <<"j">>>>
CallKeywordTexts == {<<"2">>}

CallKeywordLists ==
    UNION {{[i \in 1..n |-> <<CallKeywordOrder[i], t[i]>>] :
               t \in [1..n -> CallKeywordTexts]} :
           n \in 0..Min(MaxCallKeywords, Len(CallKeywordOrder))}

\* the receiver expression and the blank written between it and the dot;
\* a callee written as a bare name has neither
Receivers ==
    {[receiver |-> <<>>, gap |-> <<>>],
     [receiver |-> <<"o">>, gap |-> <<>>],
     [receiver |-> <<"o">>, gap |-> <<" ">>]}

CallHeaders ==
    {[receiver |-> rc.receiver, gap |-> rc.gap, name |-> <<"m">>,
      args |-> args, star |-> st, keywords |-> kws, dstar |-> ds] :
        rc \in Receivers, args \in SeqsUpTo(CallArgTexts, MaxCallArgs),
        st \in {None, <<"r">>}, kws \in CallKeywordLists,
        ds \in {None, <<"w">>}}

\* the DefinitionInfo of the callee, whose first parameter a constructor call
\* gets as its first argument
CalleeDefinition ==
    DefinitionInfo(<<"m">>, TRUE,
                   <<<<<<"s", "e", "l", "f">>, None>>, <<<<"a">>, None>>>>,
                   None, None)

\* primary is the resolved expression before the last dot of the callee:
\* there is none when the callee is a bare name
CallInit ==
    /\ pc = "call_start"
    /\ header \in CallHeaders
    /\ code = CallCode(header)
    /\ tree = CallTree(header)
    /\ kind \in {"function", "method", "classmethod", "class", "none"}
    /\ primary \in (IF header.receiver = <<>> THEN {None}
                    ELSE {<<"instance">>, <<"other">>})
    /\ debug \in BOOLEAN
    /\ parameters = None
    /\ definition_info = CalleeDefinition
    /\ new_definition_info = None
    /\ call_info = None /\ mapping = None
    /\ new_call_info = None /\ new_mapping = None

\* _FunctionCallParser(code, is_method_call or is_classmethod)
FunctionCallParser ==
    BaseFunctionParser(code, IsMethodCall(primary, kind) \/ IsClassmethod(kind))

GetCallParameters ==
    /\ pc = "call_start"
    /\ parameters' = CallGetParameters(FunctionCallParser, tree, debug)
    /\ pc' = "call_parsed"
    /\ UNCHANGED <<mapvars, header, code, tree, kind, primary, debug>>

ReadCall ==
    /\ pc = "call_parsed"
    /\ call_info' =
          IF parameters.status = "ok"
          THEN CallInfoRead(primary, kind, definition_info, FunctionCallParser,
                            parameters)
          ELSE parameters
    /\ pc' = "call_done"
    /\ UNCHANGED <<definition_info, new_definition_info, mapping,
                   new_call_info, new_mapping, parsevars>>

CallNext == GetCallParameters \/ ReadCall

CallSpec == CallInit /\ [][CallNext]_vars

----------------------------------------------------------------------------
(* Properties of the parsers *)

\* the declared positional-only, normal and keyword-only parameters of a
\* definition header, each with its default text or None
DeclaredParameters(h) ==
    LET ps == h.posonly \o h.args \o h.kwonly
    IN [i \in 1..Len(ps) |-> <<ps[i].arg, ps[i].default>>]

\* C6: DefinitionInfo._read classifies every parameter form: parameters are
\* the declared positional-only, normal and keyword-only names in order,
\* each with the text of its own default or None; the variadic names are
\* those of the *-parameter and the **-parameter; no entry of parameters
\* starts with "*".
CexDefinitionParsing ==
    pc = "def_done" =>
        /\ parameters.status = "ok"
        /\ definition_info.args_with_defaults = DeclaredParameters(header)
        /\ definition_info.args_arg = header.vararg
        /\ definition_info.keywords_arg = header.kwarg
        /\ \A i \in 1..Len(definition_info.args_with_defaults) :
              ~StartsWith(definition_info.args_with_defaults[i][1], <<"*">>)

\* C5: a call read as a method or classmethod call has the implicit-argument
\* flag set, the receiver text written before the call as its first
\* positional argument, followed by the written positional arguments, and
\* the bare identifier before the parenthesis as its callee name.
CexReceiverExtraction ==
    (/\ pc = "call_done"
     /\ parameters.status = "ok"
     /\ IsMethodCall(primary, kind) \/ IsClassmethod(kind)) =>
        /\ call_info.implicit_arg
        /\ call_info.args # <<>>
        /\ header.receiver # <<>>
        /\ call_info.args = <<header.receiver>> \o header.args
        /\ call_info.function_name = header.name

\* C7: reading a call that ends with "*E" and/or "**F" succeeds and yields
\* E and F as the two spreads, neither among the positional or keyword
\* arguments; a call without spreads has both absent.
CexSpreadDetection ==
    pc = "call_done" =>
        /\ parameters.status = "ok"
        /\ call_info.args_arg = header.star
        /\ call_info.keywords_arg = header.dstar
        /\ call_info.keywords = header.keywords
        /\ \A i \in 1..Len(call_info.args) :
              ~StartsWith(call_info.args[i], <<"*">>)

====
